---- MODULE Spec2Model ----
(***************************************************************************)
(* Model of UpdateStateHouseBattleMap.py: the Datawrapper chart updater.   *)
(* One run of the script: the module globals are read from the process     *)
(* environment, main() validates them and then calls the four steps        *)
(* get_google_sheet_csv, update_chart_data, update_chart_metadata and      *)
(* publish_chart, each of which issues one blocking HTTP request.          *)
(*                                                                         *)
(* Text is a sequence of tokens: a URL read from the environment is a      *)
(* sequence of single characters and slash-free chunks, a literal of the   *)
(* program is one token, and an f-string is a concatenation.               *)
(***************************************************************************)
EXTENDS Integers, Sequences, FiniteSets, TLC

\* ---------------------------------------------------------------- bounds
MaxUrlLen == 5

\* ------------------------------------------------------- optional values
None == [isNone |-> TRUE, val |-> <<>>]
Some(v) == [isNone |-> FALSE, val |-> v]

\* A truthiness test that only rejects None.
Truthy_emptyOk(v) == ~v.isNone
\* Python truthiness of an optional text: None and '' are falsy.
Truthy(v) == ~v.isNone /\ v.val # <<>>

\* ------------------------------------------------------------ JSON values
JNull == [type |-> "null", fields |-> <<>>, str |-> <<>>]
JStr(s) == [type |-> "string", fields |-> <<>>, str |-> s]
JList == [type |-> "array", fields |-> <<>>, str |-> <<>>]
JObj(f) == [type |-> "object", fields |-> f, str |-> <<>>]
JInvalid == [type |-> "invalid", fields |-> <<>>, str |-> <<>>]
JUnset == [type |-> "unset", fields |-> <<>>, str |-> <<>>]

\* ------------------------------------------------------ sets of inputs
UrlChars == {"/", "d", "ABC123"}
RECURSIVE SeqsUpTo(_, _)
SeqsUpTo(S, n) ==
  IF n = 0 THEN {<<>>}
  ELSE LET R == SeqsUpTo(S, n - 1)
       IN R \cup {Append(s, c) : s \in {r \in R : Len(r) = n - 1}, c \in S}
SheetUrls == SeqsUpTo(UrlChars, MaxUrlLen)
ApiKeys == {<<>>, <<"key-1">>}
ChartIds == {<<>>, <<"abcde">>}
Statuses == {200, 304, 404, 500}
CsvTexts == {<<>>, <<"a,b\n1,2\n">>}
Timestamps == {<<"November 05, 2026 at 12:00 PM UTC">>}
ExampleUrl == <<"https://example.com/chart1">>
Bodies ==
  { JObj([data |-> JObj([publicUrl |-> JStr(ExampleUrl)])]),
    JObj([data |-> JObj([id |-> JStr(<<"abcde">>)])]),
    JObj([id |-> JStr(<<"abcde">>)]),
    JObj([data |-> JNull]),
    JObj([data |-> JStr(<<"ok">>)]),
    JList,
    JInvalid }

\* ------------------------------------------------------------------ state
VARIABLES environ, DATAWRAPPER_API_KEY, CHART_ID, GOOGLE_SHEET_URL,
          pc, calls, requests, responses, csv_data, public_url, error
vars == <<environ, DATAWRAPPER_API_KEY, CHART_ID, GOOGLE_SHEET_URL,
          pc, calls, requests, responses, csv_data, public_url, error>>
config == <<environ, DATAWRAPPER_API_KEY, CHART_ID, GOOGLE_SHEET_URL>>

\* os.environ.get(name, default): the value, or the default when unset.
EnvironGet(env, name, default) ==
  IF env[name].isNone THEN default ELSE env[name]

DefaultChartId == <<"kg7Xj">>

Environs ==
  [DATAWRAPPER_API_KEY : {None} \cup {Some(k) : k \in ApiKeys},
   DATAWRAPPER_CHART_ID : {None} \cup {Some(c) : c \in ChartIds},
   GOOGLE_SHEET_URL : {None} \cup {Some(u) : u \in SheetUrls}]

Init ==
  /\ environ \in Environs
  /\ DATAWRAPPER_API_KEY = EnvironGet(environ, "DATAWRAPPER_API_KEY", None)
  /\ CHART_ID = EnvironGet(environ, "DATAWRAPPER_CHART_ID", Some(DefaultChartId))
  /\ GOOGLE_SHEET_URL = EnvironGet(environ, "GOOGLE_SHEET_URL", None)
  /\ pc = "main"
  /\ calls = <<>>
  /\ requests = <<>>
  /\ responses = <<>>
  /\ csv_data = None
  /\ public_url = JUnset
  /\ error = ""

\* ------------------------------------------------------------ str helpers
\* str.find: the first index at which sep occurs in s, 0 when it does not.
Find(s, sep) ==
  LET I == {i \in 1..(Len(s) - Len(sep) + 1) : SubSeq(s, i, i + Len(sep) - 1) = sep}
  IN IF I = {} THEN 0 ELSE CHOOSE i \in I : \A j \in I : i <= j

\* sep in s
Contains(s, sep) == Find(s, sep) # 0

\* str.split(sep): the pieces between the non-overlapping occurrences of sep,
\* scanned left to right.
RECURSIVE Split(_, _)
Split(s, sep) ==
  LET i == Find(s, sep)
  IN IF i = 0 THEN <<s>>
     ELSE <<SubSeq(s, 1, i - 1)>> \o Split(SubSeq(s, i + Len(sep), Len(s)), sep)

Marker == <<"/", "d", "/">>
Slash == <<"/">>

\* sheet_url.split('/d/')[1].split('/')[0]   (Python indices are 0-based)
SheetId(sheet_url) == Split(Split(sheet_url, Marker)[2], Slash)[1]

ExportPrefix == <<"https://docs.google.com/spreadsheets/d/">>
ExportSuffix == <<"/export?format=csv">>
CsvUrl(sheet_id) == ExportPrefix \o sheet_id \o ExportSuffix

ChartsBase == <<"https://api.datawrapper.de/v3/charts/">>
NoHeaders == [Authorization |-> None, ContentType |-> None]
Headers(api_key, ctype) ==
  [Authorization |-> Some(<<"Bearer ">> \o api_key), ContentType |-> Some(ctype)]

\* ------------------------------------------------------------- requests
GetRequest(sheet_url) ==
  [method |-> "GET", url |-> CsvUrl(SheetId(sheet_url)), headers |-> NoHeaders,
   data |-> None, json |-> JUnset]

\* A PUT that drops the CSV text.
PutRequest_noBody(api_key, chart_id, csv) ==
  [method |-> "PUT", url |-> ChartsBase \o chart_id \o <<"/data">>,
   headers |-> Headers(api_key, <<"text/csv">>),
   data |-> Some(<<>>), json |-> JUnset]
\* update_chart_data, lines 40-46: the PUT with the CSV text as its body.
PutRequest(api_key, chart_id, csv) ==
  [method |-> "PUT", url |-> ChartsBase \o chart_id \o <<"/data">>,
   headers |-> Headers(api_key, <<"text/csv">>),
   data |-> Some(csv), json |-> JUnset]

PatchRequest(api_key, chart_id, timestamp) ==
  [method |-> "PATCH", url |-> ChartsBase \o chart_id,
   headers |-> Headers(api_key, <<"application/json">>),
   data |-> None,
   json |-> JObj([metadata |-> JObj([annotate |->
              JObj([notes |-> JStr(<<"Last updated: ">> \o timestamp)])])])]

\* A POST that targets the default chart instead of the configured one.
PostRequest_defaultChart(api_key, chart_id) ==
  [method |-> "POST", url |-> ChartsBase \o DefaultChartId \o <<"/publish">>,
   headers |-> Headers(api_key, <<"application/json">>),
   data |-> None, json |-> JUnset]
\* publish_chart, lines 82-88: the POST, without a body.
PostRequest(api_key, chart_id) ==
  [method |-> "POST", url |-> ChartsBase \o chart_id \o <<"/publish">>,
   headers |-> Headers(api_key, <<"application/json">>),
   data |-> None, json |-> JUnset]

\* ------------------------------------------------------------- responses
Response(status, text, body) == [status |-> status, text |-> text, body |-> body]

\* A status check that lets client errors through.
RaisesForStatus_only5xx(status) == status >= 500 /\ status < 600
\* Response.raise_for_status(): raises HTTPError for a 4xx or 5xx status.
RaisesForStatus(status) == status >= 400 /\ status < 600

\* dict.get(key, default)
DictGet(d, key, default) ==
  IF key \in DOMAIN d.fields THEN d.fields[key] ELSE default

Placeholder == JStr(<<"URL not available">>)

\* An extraction that never reads data.publicUrl.
PublicUrl_alwaysPlaceholder(body) ==
  IF body.type = "invalid" THEN [raised |-> "JSONDecodeError", value |-> JUnset]
  ELSE IF body.type # "object" THEN [raised |-> "AttributeError", value |-> JUnset]
  ELSE LET data == DictGet(body, "data", JObj(<<>>))
       IN IF data.type # "object"
          THEN [raised |-> "AttributeError", value |-> JUnset]
          ELSE [raised |-> "", value |-> Placeholder]
\* result.get('data', {}).get('publicUrl', 'URL not available'):
\* the outcome of lines 91-92 on a response body, an exception name or a value.
PublicUrl(body) ==
  IF body.type = "invalid" THEN [raised |-> "JSONDecodeError", value |-> JUnset]
  ELSE IF body.type # "object" THEN [raised |-> "AttributeError", value |-> JUnset]
  ELSE LET data == DictGet(body, "data", JObj(<<>>))
       IN IF data.type # "object"
          THEN [raised |-> "AttributeError", value |-> JUnset]
          ELSE [raised |-> "", value |-> DictGet(data, "publicUrl", Placeholder)]

\* An order that publishes right after the upload.
StepAfter_skipAnnotate(step) ==
  CASE step = "fetch" -> "upload"
    [] step = "upload" -> "publish"
    [] step = "annotate" -> "publish"
    [] step = "publish" -> "Done"
\* The order in which main() calls the steps.
StepAfter(step) ==
  CASE step = "fetch" -> "upload"
    [] step = "upload" -> "annotate"
    [] step = "annotate" -> "publish"
    [] step = "publish" -> "Done"

Raise(e) ==
  /\ pc' = "Failed"
  /\ error' = e

KeyRequired == "ValueError: DATAWRAPPER_API_KEY environment variable is required"
UrlRequired == "ValueError: GOOGLE_SHEET_URL environment variable is required"
InvalidUrl == "ValueError: Invalid Google Sheets URL format"

\* ---------------------------------------------------------------- actions
\* main(), lines 104-116: validate the environment values.
main_validate ==
  /\ pc = "main"
  /\ IF ~Truthy(DATAWRAPPER_API_KEY) THEN Raise(KeyRequired)
     ELSE IF ~Truthy(GOOGLE_SHEET_URL) THEN Raise(UrlRequired)
     ELSE pc' = "fetch" /\ error' = error
  /\ UNCHANGED <<config, calls, requests, responses, csv_data, public_url>>

\* get_google_sheet_csv with the GET sent whether or not '/d/' is present.
get_google_sheet_csv_call_unchecked ==
  /\ pc = "fetch"
  /\ calls' = Append(calls, "get_google_sheet_csv")
  /\ requests' = Append(requests,
        IF Contains(GOOGLE_SHEET_URL.val, Marker)
        THEN GetRequest(GOOGLE_SHEET_URL.val)
        ELSE [GetRequest(Marker) EXCEPT !.url = CsvUrl(GOOGLE_SHEET_URL.val)])
  /\ pc' = "get_sent"
  /\ UNCHANGED <<config, responses, csv_data, public_url, error>>
\* get_google_sheet_csv, lines 22-30: derive the export URL and send the GET.
get_google_sheet_csv_call ==
  /\ pc = "fetch"
  /\ calls' = Append(calls, "get_google_sheet_csv")
  /\ IF Contains(GOOGLE_SHEET_URL.val, Marker)
     THEN /\ requests' = Append(requests, GetRequest(GOOGLE_SHEET_URL.val))
          /\ pc' = "get_sent"
          /\ error' = error
     ELSE /\ Raise(InvalidUrl)
          /\ requests' = requests
  /\ UNCHANGED <<config, responses, csv_data, public_url>>

\* get_google_sheet_csv, lines 30-33, and main(), lines 120-121.
get_google_sheet_csv_return ==
  /\ pc = "get_sent"
  /\ \E status \in Statuses, text \in CsvTexts :
       /\ responses' = Append(responses, Response(status, text, JInvalid))
       /\ IF RaisesForStatus(status)
          THEN Raise("HTTPError") /\ csv_data' = csv_data
          ELSE /\ csv_data' = Some(text)
               /\ pc' = StepAfter("fetch")
               /\ error' = error
  /\ UNCHANGED <<config, calls, requests, public_url>>

\* update_chart_data, lines 40-46: send the PUT.
update_chart_data_call ==
  /\ pc = "upload"
  /\ calls' = Append(calls, "update_chart_data")
  /\ requests' = Append(requests,
        PutRequest(DATAWRAPPER_API_KEY.val, CHART_ID.val, csv_data.val))
  /\ pc' = "put_sent"
  /\ UNCHANGED <<config, responses, csv_data, public_url, error>>

\* update_chart_data, lines 46-49.
update_chart_data_return ==
  /\ pc = "put_sent"
  /\ \E status \in Statuses :
       /\ responses' = Append(responses, Response(status, <<>>, JInvalid))
       /\ IF RaisesForStatus(status)
          THEN Raise("HTTPError")
          ELSE pc' = StepAfter("upload") /\ error' = error
  /\ UNCHANGED <<config, calls, requests, csv_data, public_url>>

\* update_chart_metadata, lines 56-72: send the PATCH.
update_chart_metadata_call ==
  /\ pc = "annotate"
  /\ calls' = Append(calls, "update_chart_metadata")
  /\ \E timestamp \in Timestamps :
       requests' = Append(requests,
          PatchRequest(DATAWRAPPER_API_KEY.val, CHART_ID.val, timestamp))
  /\ pc' = "patch_sent"
  /\ UNCHANGED <<config, responses, csv_data, public_url, error>>

\* update_chart_metadata, lines 72-75.
update_chart_metadata_return ==
  /\ pc = "patch_sent"
  /\ \E status \in Statuses :
       /\ responses' = Append(responses, Response(status, <<>>, JInvalid))
       /\ IF RaisesForStatus(status)
          THEN Raise("HTTPError")
          ELSE pc' = StepAfter("annotate") /\ error' = error
  /\ UNCHANGED <<config, calls, requests, csv_data, public_url>>

\* publish_chart, lines 82-88: send the POST.
publish_chart_call ==
  /\ pc = "publish"
  /\ calls' = Append(calls, "publish_chart")
  /\ requests' = Append(requests, PostRequest(DATAWRAPPER_API_KEY.val, CHART_ID.val))
  /\ pc' = "post_sent"
  /\ UNCHANGED <<config, responses, csv_data, public_url, error>>

\* publish_chart, lines 88-97, and main(), lines 133-137.
publish_chart_return ==
  /\ pc = "post_sent"
  /\ \E status \in Statuses, body \in Bodies :
       /\ responses' = Append(responses, Response(status, <<>>, body))
       /\ IF RaisesForStatus(status)
          THEN Raise("HTTPError") /\ public_url' = public_url
          ELSE LET r == PublicUrl(body)
               IN IF r.raised # ""
                  THEN Raise(r.raised) /\ public_url' = public_url
                  ELSE /\ public_url' = r.value
                       /\ pc' = StepAfter("publish")
                       /\ error' = error
  /\ UNCHANGED <<config, calls, requests, csv_data>>

\* requests.get/put/patch/post raising instead of returning a response
\* (connection refused, DNS failure, ...): the exception leaves main().
transport_error ==
  /\ pc \in {"get_sent", "put_sent", "patch_sent", "post_sent"}
  /\ Raise("ConnectionError")
  /\ UNCHANGED <<config, calls, requests, responses, csv_data, public_url>>

Next ==
  \/ main_validate
  \/ get_google_sheet_csv_call
  \/ get_google_sheet_csv_return
  \/ update_chart_data_call
  \/ update_chart_data_return
  \/ update_chart_metadata_call
  \/ update_chart_metadata_return
  \/ publish_chart_call
  \/ publish_chart_return
  \/ transport_error

Spec == Init /\ [][Next]_vars

\* ----------------------------------------------------------------- claims
\* A response counts as a success when the HTTP client reports it as ok
\* (Response.ok: status below 400), and as a failure otherwise.

MethodOrder == <<"GET", "PUT", "PATCH", "POST">>

\* C1: when a step's request gets a non-success HTTP status, that step raises
\* (the run is Failed with an HTTP error) and no later step issues its
\* request: the failed request is the last request of the run.
C1_FailureStopsLaterSteps ==
  \A i \in DOMAIN responses :
    responses[i].status >= 400 =>
      /\ pc = "Failed"
      /\ error = "HTTPError"
      /\ Len(requests) = i
      /\ Len(responses) = i

C1_Witness ==
  /\ Len(responses) = 2
  /\ responses[2].status = 404
  /\ pc = "Failed"

\* C2: when DATAWRAPPER_API_KEY or GOOGLE_SHEET_URL is unset or empty in the
\* environment, main() fails with a configuration error, none of the four
\* steps is invoked and no network request is made.
C2_MissingConfigFailsFast ==
  (\/ environ.DATAWRAPPER_API_KEY.isNone
   \/ environ.DATAWRAPPER_API_KEY.val = <<>>
   \/ environ.GOOGLE_SHEET_URL.isNone
   \/ environ.GOOGLE_SHEET_URL.val = <<>>) =>
      /\ calls = <<>>
      /\ requests = <<>>
      /\ pc \in {"main", "Failed"}
      /\ pc = "Failed" => error \in {KeyRequired, UrlRequired}

C2_Witness ==
  /\ ~environ.GOOGLE_SHEET_URL.isNone
  /\ environ.GOOGLE_SHEET_URL.val = <<>>
  /\ pc = "Failed"
  /\ error = UrlRequired

\* C3: for a spreadsheet URL without the substring '/d/', once
\* get_google_sheet_csv has been called the run has failed with the
\* input-format ValueError, and the run issues no network request at all.
C3_NoMarkerNoRequest ==
  (/\ ~environ.GOOGLE_SHEET_URL.isNone
   /\ ~Contains(environ.GOOGLE_SHEET_URL.val, Marker)) =>
      /\ requests = <<>>
      /\ calls # <<>> => (calls = <<"get_google_sheet_csv">>
                           /\ pc = "Failed" /\ error = InvalidUrl)

C3_Witness ==
  /\ calls = <<"get_google_sheet_csv">>
  /\ error = InvalidUrl
  /\ GOOGLE_SHEET_URL.val # <<>>
  /\ requests = <<>>

\* C4: the requests of a run are issued in the order GET, PUT, PATCH, POST,
\* each at most once, and a request is issued only after every earlier
\* request has returned a success status.
C4_FixedOrderNoRetry ==
  /\ Len(requests) <= 4
  /\ \A i \in DOMAIN requests : requests[i].method = MethodOrder[i]
  /\ \A i \in DOMAIN requests : \A j \in 1..(i - 1) :
        j \in DOMAIN responses /\ responses[j].status < 400

C4_Witness ==
  /\ Len(requests) = 4
  /\ Len(responses) = 4
  /\ pc = "Done"

\* C5 (as claimed): a publish response with a success status and a JSON
\* object as its body makes publish_chart return a value, whatever the
\* shape of 'data', and the run reaches Done.
C5_StatusAloneGoverns ==
  (/\ Len(responses) = 4
   /\ responses[4].status \in 200..299
   /\ responses[4].body.type = "object") =>
      /\ pc = "Done"
      /\ error = ""
      /\ public_url.type # "unset"

C7_IdentifierSegment ==
  Len(requests) >= 1 =>
    LET url == GOOGLE_SHEET_URL.val
        i == Find(url, Marker)
        J == {j \in (i + 3)..Len(url) : url[j] = "/"}
    IN /\ i # 0
       /\ J # {}
       /\ LET j == CHOOSE k \in J : \A m \in J : k <= m
          IN /\ j > i + 3
             /\ requests[1].url =
                  <<"https://docs.google.com/spreadsheets/d/">>
                    \o SubSeq(url, i + 3, j - 1) \o <<"/export?format=csv">>

\* C8: the body of the PUT is exactly the text the GET returned in the same
\* run, and an empty text does not stop the run: after a successful GET the
\* run can only fail once the PUT has been issued.
C8_CsvPassedOpaquely ==
  /\ Len(requests) >= 2 =>
       /\ requests[2].method = "PUT"
       /\ ~requests[2].data.isNone
       /\ requests[2].data.val = responses[1].text
  /\ (Len(responses) >= 1 /\ responses[1].status < 400 /\ pc = "Failed")
       => Len(requests) >= 2

C8_Witness ==
  /\ pc = "Done"
  /\ responses[1].text = <<>>
  /\ requests[2].data.val = <<>>

\* C9 (as claimed): a run that has ended is Done exactly when the
\* configuration was present, the sheet URL contained '/d/' and all four
\* requests returned success; a Done run issued exactly four requests.
C9_DoneIffAllSucceeded ==
  pc \in {"Done", "Failed"} =>
    /\ pc = "Done" <=>
         /\ ~environ.DATAWRAPPER_API_KEY.isNone
         /\ environ.DATAWRAPPER_API_KEY.val # <<>>
         /\ ~environ.GOOGLE_SHEET_URL.isNone
         /\ Contains(environ.GOOGLE_SHEET_URL.val, Marker)
         /\ Len(responses) = 4
         /\ \A i \in 1..4 : responses[i].status < 400
    /\ pc = "Done" => Len(requests) = 4

\* C10: the configuration does not change during a run: the globals equal
\* the values of the environment at startup (the chart identifier being
\* 'kg7Xj' when DATAWRAPPER_CHART_ID is unset), and the PUT, PATCH and POST
\* all target that chart identifier and carry that bearer credential.
C10_ConfigImmutable ==
  LET cid == IF environ.DATAWRAPPER_CHART_ID.isNone
             THEN <<"kg7Xj">> ELSE environ.DATAWRAPPER_CHART_ID.val
      tail == [PUT |-> <<"/data">>, PATCH |-> <<>>, POST |-> <<"/publish">>]
  IN /\ DATAWRAPPER_API_KEY = environ.DATAWRAPPER_API_KEY
     /\ GOOGLE_SHEET_URL = environ.GOOGLE_SHEET_URL
     /\ CHART_ID = [isNone |-> FALSE, val |-> cid]
     /\ \A i \in DOMAIN requests :
          requests[i].method \in {"PUT", "PATCH", "POST"} =>
            /\ requests[i].url =
                 <<"https://api.datawrapper.de/v3/charts/">> \o cid
                   \o tail[requests[i].method]
            /\ requests[i].headers.Authorization =
                 [isNone |-> FALSE,
                  val |-> <<"Bearer ">> \o environ.DATAWRAPPER_API_KEY.val]

C10_Witness ==
  /\ pc = "Done"
  /\ ~environ.DATAWRAPPER_CHART_ID.isNone
  /\ environ.DATAWRAPPER_CHART_ID.val = <<"abcde">>
  /\ Len(requests) = 4

====
